---------------------------- MODULE Spec2Model ----------------------------
(***************************************************************************)
(* Absori / Integrate_Absori (bb_astromodels/xray/absorption.py): the      *)
(* ionized-absorber opacity engine, its single-slot ionizing-spectrum memo *)
(* and the redshift-shell integrator.                                      *)
(*                                                                         *)
(* NUMBERS.  A Python/numpy float is held as  m * 10^e  with m and e       *)
(* integers (record [m, e], normal form: m no multiple of 10, zero is      *)
(* [0, 0], nan and the infinities are [0, 1]).  An operation is exact      *)
(* whenever its result fits four decimal figures and is otherwise rounded  *)
(* to four significant figures, as a binary double is exact when the       *)
(* result is representable and rounded otherwise.  A quantity the source   *)
(* keeps in log space (xil, ratio, ratcumsum, mul, mult, num before the    *)
(* final np.exp) is held as the number it is the logarithm of: np.log and  *)
(* np.exp move between the two readings, a log-space sum is a product, a   *)
(* log-space difference a quotient, an integer multiple a power, and max   *)
(* is max.                                                                 *)
(***************************************************************************)
EXTENDS Integers, Sequences, FiniteSets, TLC

----------------------------------------------------------------------------
(* Arithmetic of floats.  A float is m * 10^e, an integer mantissa of at
   most four figures and an integer exponent: sums, products and quotients
   that fit four figures are exact, the others are rounded to four. *)

\* b, once every entry of a is computed (the entries of a function are
\* computed on demand; the statements of the source run in order)
After(a, b) == IF a = a THEN b ELSE b

\* the array a with every entry computed
Eval(a) == After(a, a)

Zero == [m |-> 0, e |-> 0]

\* nan and the infinities: what numpy returns, with a RuntimeWarning, for
\* x / 0 or log(0)
NaN == [m |-> 0, e |-> 1]

IsNaN(a) == a.m = 0 /\ a.e # 0

Neg(a) == [m |-> -a.m, e |-> a.e]

\* 10^k for k in 0..9
Pow10(k) ==
    <<1, 10, 100, 1000, 10000, 100000, 1000000, 10000000, 100000000,
      1000000000>>[k + 1]

\* the float m * 10^e of any integer m: four figures, no trailing zero
RECURSIVE Norm(_, _)
Norm(m, e) ==
    CASE m < 0 -> Neg(Norm(-m, e))
      [] m = 0 -> Zero
      [] m >= 100000000 -> Norm(m \div 10000, e + 4)
      [] m >= 1000000 /\ m < 100000000 -> Norm(m \div 100, e + 2)
      [] m >= 100000 /\ m < 1000000 -> Norm(m \div 10, e + 1)
      [] m >= 10000 /\ m < 100000 -> Norm((m + 5) \div 10, e + 1)
      [] m > 0 /\ m < 10000 /\ m % 100 = 0 -> Norm(m \div 100, e + 2)
      [] m > 0 /\ m < 10000 /\ m % 100 # 0 /\ m % 10 = 0 ->
             [m |-> m \div 10, e |-> e + 1]
      [] OTHER -> [m |-> m, e |-> e]

\* the same value with a mantissa of exactly four figures (m # 0)
Widen(m, e) ==
    CASE -10 < m /\ m < 10 -> [m |-> m * 1000, e |-> e - 3]
      [] (-100 < m /\ m <= -10) \/ (10 <= m /\ m < 100) ->
             [m |-> m * 100, e |-> e - 2]
      [] (-1000 < m /\ m <= -100) \/ (100 <= m /\ m < 1000) ->
             [m |-> m * 10, e |-> e - 1]
      [] OTHER -> [m |-> m, e |-> e]

\* the float of a decimal literal m e, and of an integer
Sci(m, e) == Norm(m, e)

Num(n) == Norm(n, 0)

One == [m |-> 1, e |-> 0]

Mul(a, b) ==
    IF IsNaN(a) \/ IsNaN(b) THEN NaN ELSE Norm(a.m * b.m, a.e + b.e)

\* x / b for a widened x, b # 0
DivWide(x, b) ==
    IF b.m > 0 THEN Norm((x.m * 100000) \div b.m, x.e - b.e - 5)
    ELSE Norm((-x.m * 100000) \div (-b.m), x.e - b.e - 5)

Div(a, b) ==
    IF IsNaN(a) \/ IsNaN(b) \/ b.m = 0 THEN NaN
    ELSE IF a.m = 0 THEN Zero
    ELSE DivWide(Widen(a.m, a.e), b)

Inv(a) == Div(One, a)

\* x + y for widened x and y
AddWide(x, y) ==
    IF x.e - y.e > 5 THEN Norm(x.m, x.e)
    ELSE IF y.e - x.e > 5 THEN Norm(y.m, y.e)
    ELSE IF x.e >= y.e THEN Norm(x.m * Pow10(x.e - y.e) + y.m, y.e)
    ELSE Norm(x.m + y.m * Pow10(y.e - x.e), x.e)

Add(a, b) ==
    IF IsNaN(a) \/ IsNaN(b) THEN NaN
    ELSE IF a.m = 0 THEN b
    ELSE IF b.m = 0 THEN a
    ELSE AddWide(Widen(a.m, a.e), Widen(b.m, b.e))

Sub(a, b) == Add(a, Neg(b))

Lt(a, b) == Sub(a, b).m < 0

Le(a, b) == ~IsNaN(a) /\ ~IsNaN(b) /\ Sub(a, b).m <= 0

\* np.max of two: nan wins
MaxF(a, b) == IF IsNaN(a) \/ IsNaN(b) THEN NaN ELSE IF Lt(a, b) THEN b ELSE a

\* acc * a^k; (acc = acc) has acc computed before the next pass
RECURSIVE PowAcc(_, _, _)
PowAcc(a, k, acc) == IF acc = acc /\ k > 0 THEN PowAcc(a, k - 1, Mul(acc, a)) ELSE acc

\* a ** k for an integer k
RECURSIVE PowInt(_, _)
PowInt(a, k) == IF k >= 0 THEN PowAcc(a, k, One) ELSE Inv(PowInt(a, -k))

\* int(a): the integer part, towards zero
RECURSIVE Floor(_)
Floor(a) ==
    IF a.m < 0 THEN -Floor(Neg(a))
    ELSE IF a.e < -9 THEN 0
    ELSE IF a.e < 0 THEN a.m \div Pow10(-a.e)
    ELSE a.m * Pow10(a.e)

\* integer square root of m > 0, by Newton's steps down from x >= sqrt(m)
RECURSIVE ISqrt(_, _)
ISqrt(m, x) ==
    IF (x + m \div x) \div 2 >= x THEN x ELSE ISqrt(m, (x + m \div x) \div 2)

\* the root of a widened x > 0: exact on a square, else to four figures
SqrtWide(x) ==
    IF x.e % 2 = 0 THEN Norm(ISqrt(x.m * 10000, 10000), (x.e - 4) \div 2)
    ELSE Norm(ISqrt(x.m * 100000, 31623), (x.e - 5) \div 2)

\* np.sqrt(a)
SqrtF(a) ==
    IF IsNaN(a) \/ a.m < 0 THEN NaN
    ELSE IF a.m = 0 THEN Zero
    ELSE SqrtWide(Widen(a.m, a.e))

\* the exponential series: acc the sum of the terms x^i / i! below i = k,
\* t the term i = k
RECURSIVE ExpSeries(_, _, _, _)
ExpSeries(x, k, t, acc) ==
    IF acc = acc /\ k <= 10 /\ t.m # 0
    THEN ExpSeries(x, k + 1, Div(Mul(t, x), Sci(k + 1, 0)), Add(acc, t))
    ELSE acc

\* h squared k times
RECURSIVE SquareN(_, _)
SquareN(h, k) == IF h = h /\ k > 0 THEN SquareN(Mul(h, h), k - 1) ELSE h

\* exp(a) for a >= 0, k halvings behind: the series up to 1/2, halving and
\* squaring above
RECURSIVE ExpPos(_, _)
ExpPos(a, k) ==
    IF a = a /\ Lt(Sci(5, -1), a) THEN ExpPos(Mul(a, Sci(5, -1)), k + 1)
    ELSE SquareN(ExpSeries(a, 0, One, Zero), k)

\* np.exp(a): 1 at 0, 0 below the double range, inf above it
RECURSIVE ExpF(_)
ExpF(a) ==
    IF IsNaN(a) THEN NaN
    ELSE IF a.m < 0 THEN (IF Lt(a, Sci(-745, 0)) THEN Zero ELSE Inv(ExpF(Neg(a))))
    ELSE IF Lt(Sci(7097, -1), a) THEN NaN
    ELSE ExpPos(a, 0)

\* t + t^3/3 + t^5/5 + ... : acc the sum of the terms below k, p = t^k
RECURSIVE AtanhSeries(_, _, _, _)
AtanhSeries(t2, k, p, acc) ==
    IF acc = acc /\ k <= 9 /\ p.m # 0
    THEN AtanhSeries(t2, k + 2, Mul(p, t2), Add(acc, Div(p, Sci(k, 0))))
    ELSE acc

\* 2 atanh(t)
Atanh2(t) == Mul(Sci(2, 0), AtanhSeries(Mul(t, t), 1, t, Zero))

\* ln(r) for 1 <= r < 2: 2 atanh((r - 1) / (r + 1))
LnNear1(r) == Atanh2(Div(Sub(r, One), Add(r, One)))

\* ln of a widened x > 0: x = r * 10^(x.e + 3) with 1 <= r < 10, and
\* ln x = 4 ln(r^(1/4)) + (x.e + 3) ln 10
LnWide(x) ==
    Add(Mul(Sci(4, 0), LnNear1(SqrtF(SqrtF(Norm(x.m, -3))))),
        Mul(Sci(x.e + 3, 0), Sci(2302585, -6)))

\* np.log(a): nan or -inf unless a > 0
LnF(a) == IF IsNaN(a) \/ a.m <= 0 THEN NaN ELSE LnWide(Widen(a.m, a.e))

\* np.power(a, p), a > 0: integer and half-integer p by products and roots
PowF(a, p) ==
    IF IsNaN(a) \/ IsNaN(p) THEN NaN
    ELSE IF p.e >= 0 THEN PowInt(a, p.m * Pow10(p.e))
    ELSE IF p.e = -1 /\ p.m % 5 = 0 THEN PowInt(SqrtF(a), p.m \div 5)
    ELSE ExpF(Mul(p, LnF(a)))

----------------------------------------------------------------------------
(* numpy arrays are functions on 0..len-1 *)

Range(n) == 0 .. (n - 1)

\* np.sum of a vector
RECURSIVE SumFrom(_, _, _, _)
SumFrom(v, k, n, acc) ==
    IF acc = acc /\ k < n THEN SumFrom(v, k + 1, n, Add(acc, v[k])) ELSE acc

SumTo(v, n) == SumFrom(v, 0, n, Zero)

----------------------------------------------------------------------------
(* The two data files, ionized/mansig.fits and abundance/abundances.dat.
   The source's elements are H .. Fe on 721 energies, stored in arrays of
   shape (10, 26, 10) and (10, 26, 721): ten elements, the 26 stages of
   iron, ten coefficients.  The table here has the same layout with four
   elements of atomic number 1, 2, 3 and 4 on three energies; the sizes
   below are read off it. *)

\* self._absori_elements: the symbols of the table's elements, iron last
absori_elements == <<"H", "He", "C", "Fe">>

\* column Z of SIGMAS: one row per (element, stage), grouped by element
ZColumn == <<1, 2, 2, 3, 3, 3, 4, 4, 4, 4>>

\* column ION of SIGMAS: the stage of the row, counted from 1
IonColumn == <<1, 1, 2, 1, 2, 3, 1, 2, 3, 4>>

\* column ENERGY of ENERGIES (eV), increasing
EnergyColumn == <<1, 2, 9>>

\* the 10 of the source: the number of elements
NEl == Len(absori_elements)

\* the 26 of the source: the largest atomic number of the table
NStage == ZColumn[Len(ZColumn)]

\* the 721 of the source: the number of grid energies
GridLen == Len(EnergyColumn)

\* the ten coefficients of a row of IONDATA
NCoef == 10

NRows == Len(ZColumn)

\* the FITS columns as 0-based arrays
znumber == [i \in Range(NRows) |-> ZColumn[i + 1]]

ionnumber == [i \in Range(NRows) |-> IonColumn[i + 1]]

energy == [k \in Range(GridLen) |-> Num(EnergyColumn[k + 1])]

\* the fall of every cross-section along the grid, in percent of its value
\* at the last energy
SigmaFall == <<400, 103, 100>>

\* column IONDATA: the ten coefficients of a row.  Coefficient 1 is the
\* radiative rate, 2 its temperature exponent, 3..6 the dielectronic term.
\* The first row of the third element has no recombination at all, the
\* first row of helium has a dielectronic term.
iondata ==
    [i \in Range(NRows) |->
        LET z  == znumber[i]
            st == ionnumber[i] - 1
        IN [k \in Range(NCoef) |->
              CASE k = 1 -> IF z = 3 /\ st = 0 THEN Zero
                            ELSE Mul(Sci(32749, -20), Num(3 * (st + 1)))
                [] k = 2 -> Num((z + st) % 2)
                [] k = 3 -> IF z = 2 /\ st = 0 THEN Sci(32749, -14) ELSE Zero
                [] k = 4 -> IF z = 2 /\ st = 0 THEN Sci(1, 4) ELSE Zero
                [] k = 5 -> IF z = 2 /\ st = 0 THEN One ELSE Zero
                [] k = 6 -> IF z = 2 /\ st = 0 THEN Sci(2, 4) ELSE Zero
                [] OTHER -> Zero]]

\* column SIGMA: the cross-section of a row at each grid energy, falling
\* with energy, by a few percent over the last step as a smooth
\* cross-section does on the fine grid of the source
sigmadata ==
    [i \in Range(NRows) |->
        LET z  == znumber[i]
            st == ionnumber[i] - 1
            w  == IF st = z - 1 THEN 200 * z * z ELSE z - st
        IN [k \in Range(GridLen) |-> Mul(Sci(66, -30), Num(w * SigmaFall[k + 1]))]]

\* abundances.dat: the header of element symbols, the model names, the table
AbundElements == <<"H", "He", "Li", "Be", "B", "C", "N", "O", "Fe">>

AbundModels == <<"feld", "angr", "aneb">>

AbundValues ==
    << <<One, Sci(977, -4), Sci(126, -13), Sci(251, -13), Sci(355, -12),
         Sci(398, -6), Sci(100, -6), Sci(851, -6), Sci(324, -7)>>,
       <<One, Sci(977, -4), Sci(145, -13), Sci(141, -13), Sci(398, -12),
         Sci(363, -6), Sci(112, -6), Sci(851, -6), Sci(468, -7)>>,
       <<One, Sci(801, -4), Sci(0, 0), Sci(0, 0), Sci(0, 0),
         Sci(445, -6), Sci(910, -7), Sci(739, -6), Sci(331, -7)>> >>

----------------------------------------------------------------------------
(* _load_sigma and _load_abundance *)

\* the state of the row loop of _load_sigma before its first row.  ion and
\* sigma are np.zeros; atomicnumber is np.empty, so its entries are whatever
\* the memory held: empty
LoadStartWith(empty) ==
    [ion          |-> [g \in Range(NEl) |-> [st \in Range(NStage) |->
                          [k \in Range(NCoef) |-> Zero]]],
     sigma        |-> [g \in Range(NEl) |-> [st \in Range(NStage) |->
                          [k \in Range(GridLen) |-> Zero]]],
     atomicnumber |-> empty,
     currentZ     |-> -1,
     iZ           |-> -1,
     iIon         |-> -1]

\* the rows of the file fill every entry of atomicnumber, so what np.empty
\* left there is never seen
LoadStart == LoadStartWith([g \in Range(NEl) |-> 0])

\* the unit changes of the coefficients 1, 3, 4 and 6
CoefUnits(k, v) ==
    CASE k = 1 -> Mul(v, Sci(1, 10))
      [] k = 3 -> Mul(v, Sci(1, 4))
      [] k = 4 -> Mul(v, Sci(1, -4))
      [] k = 6 -> Mul(v, Sci(1, -4))
      [] OTHER -> v

\* the three columns of the table the loop reads
FileTable == [znumber |-> znumber, iondata |-> iondata, sigmadata |-> sigmadata]

\* the row stored with the stage index running on across a change of Z
LoadRowNoRestart(tab, st, i) ==
    LET new  == tab.znumber[i] # st.currentZ
        iZ   == IF new THEN st.iZ + 1 ELSE st.iZ
        iIon == st.iIon + 1
    IN [ion          |-> [st.ion EXCEPT ![iZ][iIon] =
                             [k \in Range(NCoef) |-> CoefUnits(k, tab.iondata[i][k])]],
        sigma        |-> [st.sigma EXCEPT ![iZ][iIon] =
                             [k \in Range(GridLen) |->
                                 Div(tab.sigmadata[i][k], Sci(66, -28))]],
        atomicnumber |-> IF new THEN [st.atomicnumber EXCEPT ![iZ] = tab.znumber[i]]
                         ELSE st.atomicnumber,
        currentZ     |-> IF new THEN tab.znumber[i] ELSE st.currentZ,
        iZ           |-> iZ,
        iIon         |-> iIon]

\* one pass of the row loop, for row i of the table tab
LoadRowOf(tab, st, i) ==
    LET new  == tab.znumber[i] # st.currentZ
        iZ   == IF new THEN st.iZ + 1 ELSE st.iZ
        iIon == (IF new THEN -1 ELSE st.iIon) + 1
    IN [ion          |-> [st.ion EXCEPT ![iZ][iIon] =
                             [k \in Range(NCoef) |-> CoefUnits(k, tab.iondata[i][k])]],
        sigma        |-> [st.sigma EXCEPT ![iZ][iIon] =
                             [k \in Range(GridLen) |->
                                 Div(tab.sigmadata[i][k], Sci(66, -28))]],
        atomicnumber |-> IF new THEN [st.atomicnumber EXCEPT ![iZ] = tab.znumber[i]]
                         ELSE st.atomicnumber,
        currentZ     |-> IF new THEN tab.znumber[i] ELSE st.currentZ,
        iZ           |-> iZ,
        iIon         |-> iIon]

\* one pass of the row loop, for row i of the file
LoadRow(st, i) == LoadRowOf(FileTable, st, i)

\* the row loop from row i on, st the state before row i
RECURSIVE LoadFrom(_, _, _)
LoadFrom(st, i, n) == IF st = st /\ i < n THEN LoadFrom(LoadRow(st, i), i + 1, n) ELSE st

LoadRows(n) == LoadFrom(LoadStart, 0, n)

\* _load_sigma(): ion, sigma, atomicnumber, energy
LoadedTable(st) ==
    [ion |-> st.ion, sigma |-> st.sigma,
     atomicnumber |-> st.atomicnumber, energy |-> energy]

load_sigma == LoadedTable(LoadRows(NRows))

IndexOf(seq, x) == CHOOSE j \in 1 .. Len(seq) : seq[j] = x

\* _load_abundance(model): the row of the named model, at each element of
\* self._absori_elements (a symbol or a model name the file lacks trips the
\* assert; the table of the model has them all)
load_abundance(model) ==
    [g \in Range(NEl) |->
        AbundValues[IndexOf(AbundModels, model)][IndexOf(AbundElements, absori_elements[g + 1])]]

----------------------------------------------------------------------------
(* _setup: the fields of a constructed model object *)

RECURSIVE MaxInt(_, _)
MaxInt(v, n) == IF n = 1 THEN v[0]
                ELSE LET m == MaxInt(v, n - 1) IN IF v[n - 1] > m THEN v[n - 1] ELSE m

\* self._sigma = self._sigma.T: (energy, stage, element)
Transpose3(a) ==
    [k \in Range(GridLen) |-> [st \in Range(NStage) |-> [g \in Range(NEl) |-> a[g][st][k]]]]

\* self._mask_valid[i, :n] = True for n = atomicnumber[i]
MaskValid(atomicnumber) ==
    [g \in Range(NEl) |-> [st \in Range(NStage) |-> st < atomicnumber[g]]]

\* self._mask_2[i, n] = True for n = atomicnumber[i] - 1
Mask2(atomicnumber) ==
    [g \in Range(NEl) |-> [st \in Range(NStage) |-> st = atomicnumber[g] - 1]]

\* self._deltaE: the width of each grid bin
DeltaE(base) ==
    [k \in Range(GridLen) |->
        IF k = 0 THEN Sub(base[1], base[0])
        ELSE IF k = GridLen - 1 THEN Sub(base[GridLen - 1], base[GridLen - 2])
        ELSE Mul(Sub(base[k + 1], base[k - 1]), Sci(5, -1))]

\* the object after _setup; cls is "Absori" or "Integrate_Absori"
SetupFrom(cls, t) ==
    [cls              |-> cls,
     ion              |-> t.ion,
     sigma            |-> Transpose3(t.sigma),
     atomicnumber     |-> t.atomicnumber,
     base_energy      |-> t.energy,
     max_atomicnumber |-> MaxInt(t.atomicnumber, NEl),
     mask_valid       |-> MaskValid(t.atomicnumber),
     mask_2           |-> Mask2(t.atomicnumber),
     interp_sigma     |-> [x |-> t.energy, y |-> Transpose3(t.sigma)],
     deltaE           |-> DeltaE(t.energy),
     abundance        |-> load_abundance("angr")]

Setup(cls) == SetupFrom(cls, Eval(load_sigma))

----------------------------------------------------------------------------
(* the ionizing spectrum *)

\* calc_ion_spec_numba(gamma, base_energy, deltaE): E^(-gamma) * deltaE
\* at every grid energy
calc_ion_spec_numba(gamma, base_energy, deltaE) ==
    [k \in Range(GridLen) |-> Mul(PowF(base_energy[k], Neg(gamma)), deltaE[k])]

----------------------------------------------------------------------------
(* Logarithms.  A quantity that _calc_num keeps in log space is held as
   [arg |-> x], the number x it is the natural logarithm of: np.log wraps,
   np.exp unwraps, a sum of logarithms is the product of the arguments, a
   difference their quotient, an integer multiple a power.  log(0) = -inf
   is [arg |-> Zero]; +inf and nan are [arg |-> NaN]. *)

LogOf(x) == [arg |-> IF IsNaN(x) \/ x.m < 0 THEN NaN ELSE x]
ExpL(l) == l.arg
LogAdd(a, b) == [arg |-> Mul(a.arg, b.arg)]
LogNeg(a) == [arg |-> Inv(a.arg)]
LogSub(a, b) == LogAdd(a, LogNeg(b))
LogTimes(k, a) == [arg |-> PowInt(a.arg, k)]
LogMax(a, b) == [arg |-> MaxF(a.arg, b.arg)]

\* the literal 0.0
LogZero == [arg |-> One]
\* the literal -100.0: exp(-100) = 3.7201e-44
LogM100 == [arg |-> Sci(37201, -48)]
\* the literal -(10 ** 99): exp of it is 0 in double precision
LogNegHuge == [arg |-> Zero]

----------------------------------------------------------------------------
(* _calc_num *)

\* a[mask] = v for a boolean mask over (element, stage): the entries where
\* the mask holds take the values of v in row-major order
TrueRank(mask, g, st) ==
    Cardinality({p \in Range(NEl) \X Range(NStage) :
                    /\ mask[p[1]][p[2]]
                    /\ (p[1] < g \/ (p[1] = g /\ p[2] < st))})

RECURSIVE CumLog(_, _)
\* np.cumsum(ratio, axis=1) at one element: the sum of row[0 .. st]
CumLog(row, st) == IF st = 0 THEN row[0] ELSE LogAdd(CumLog(row, st - 1), row[st])

RECURSIVE MaxLog(_, _)
\* np.max over row[0 .. n-1]
MaxLog(row, n) == IF n = 1 THEN row[0] ELSE LogMax(MaxLog(row, n - 1), row[n - 1])

\* lines 340-346 at one (element, stage), coef the ten coefficients of it
ArecAt(coef, t4) ==
    Add(Mul(coef[1], PowF(t4, Neg(coef[2]))),
        Mul(Mul(Mul(coef[3], PowF(t4, Sci(-15, -1))), ExpF(Div(Neg(coef[4]), t4))),
            Add(One, Mul(coef[5], ExpF(Div(Neg(coef[6]), t4))))))

\* line 349 at one element: tfact * z2 * (1.735 + log(y) + 1 / (6 y))
Arec2At(tfact, z2, y) ==
    Mul(Mul(tfact, z2),
        Add(Add(Sci(1735, -3), LnF(y)), Div(One, Mul(Num(6), y))))

\* lines 347-349 at the element of atomic number z
Arec2Of(z, t4, tfact) ==
    Arec2At(tfact, Num(z * z), Div(Mul(Sci(158, -1), Num(z * z)), t4))

\* lines 340-350 for t4 and tfact
ArecFor(self, t4, tfact) ==
    After(<<t4, tfact>>,
    [g \in Range(NEl) |-> [st \in Range(NStage) |->
        IF self.mask_2[g][st]
        THEN Arec2Of(self.atomicnumber[TrueRank(self.mask_2, g, st)], t4, tfact)
        ELSE ArecAt(self.ion[g][st], t4)]])

\* tfact = 1.033e-3 / np.sqrt(t4)
ArecT4(self, t4) == ArecFor(self, t4, Div(Sci(1033, -6), SqrtF(t4)))

\* the recombination rate of every (element, stage), lines 328-350
Arec(self, temp) == ArecT4(self, Mul(Sci(1, -4), temp))

\* intgral = np.sum(self._sigma.T * spec, axis=2)
Intgral(self, spec) ==
    [g \in Range(NEl) |-> [st \in Range(NStage) |->
        SumTo([k \in Range(GridLen) |-> Mul(self.sigma[k][st][g], spec[k])], GridLen)]]

\* the line the source keeps as a comment, ratio = np.log(3.2749e-6 *
\* intgral / arec), without the assignment that follows it there
RatioEverywhere(arec, intgral) ==
    [g \in Range(NEl) |-> [st \in Range(NStage) |->
        LogOf(Div(Mul(Sci(32749, -10), intgral[g][st]), arec[g][st]))]]

\* ratio: log(3.2749e-6 * intgral / arec) where arec != 0, 0.0 elsewhere
Ratio(arec, intgral) ==
    [g \in Range(NEl) |-> [st \in Range(NStage) |->
        IF arec[g][st] # Zero
        THEN LogOf(Div(Mul(Sci(32749, -10), intgral[g][st]), arec[g][st]))
        ELSE LogZero]]

\* xil: the log of xi, or -100.0
Xil(xi) == IF Le(xi, Zero) THEN LogM100 ELSE LogOf(xi)

\* lines 361-364: mul = ratcumsum + arange(1, max + 1) * xil, and
\* -(10 ** 99) outside the valid stages
MulOf(self, ratio, xil) ==
    [g \in Range(NEl) |-> [st \in Range(NStage) |->
        IF self.mask_valid[g][st]
        THEN LogAdd(CumLog(ratio[g], st), LogTimes(st + 1, xil))
        ELSE LogNegHuge]]

\* lines 366-372: s = sum(exp(mul - mult), 0 outside the valid stages)
\* + exp(-mult)
SOf(self, mul, mult) ==
    [g \in Range(NEl) |->
        Add(SumTo([st \in Range(NStage) |->
                      IF self.mask_valid[g][st]
                      THEN ExpL(LogSub(mul[g][st], mult[g]))
                      ELSE Zero], NStage),
            ExpL(LogNeg(mult[g])))]

\* line 375 with the xil term left out: num[j] = num[j - 1] + ratio[:, j - 1]
NumNextNoXil(prev, r, xil) == LogAdd(prev, r)

\* line 375 with the sign of xil slipped: num[j] = num[j - 1] + ratio - xil
NumNextMinusXil(prev, r, xil) == LogSub(LogAdd(prev, r), xil)

\* line 375 at one element: num[j] = num[j - 1] + ratio[:, j - 1] + xil
NumNext(prev, r, xil) == LogAdd(LogAdd(prev, r), xil)

RECURSIVE NumLoop(_, _, _, _)
\* the loop of lines 374-375 from pass j on, still in log space: rows holds
\* num[0 .. j-1]
NumLoop(rows, j, ratio, xil) ==
    IF rows = rows /\ j < NStage
    THEN NumLoop(Append(rows, [g \in Range(NEl) |->
                                 NumNext(rows[j][g], ratio[g][j - 1], xil)]),
                 j + 1, ratio, xil)
    ELSE rows

\* line 373: num[0] = -mult - np.log(s)
NumFirst(mult, s) ==
    [g \in Range(NEl) |-> LogSub(LogNeg(mult[g]), LogOf(s[g]))]

\* lines 377-378: the rows exponentiated, 0 outside the valid stages
NumOf(self, rows) ==
    [j \in Range(self.max_atomicnumber) |-> [g \in Range(NEl) |->
        IF self.mask_valid[g][j] THEN ExpL(rows[j + 1][g]) ELSE Zero]]

\* lines 373-379: what the call hands back, with the locals xil, arec and
\* ratio beside the matrix num[stage][element]
calc_num_loop(self, xil, arec, ratio, mult, s) ==
    After(s,
       [xil |-> xil, arec |-> arec, ratio |-> ratio,
        num |-> Eval(NumOf(self, NumLoop(<<NumFirst(mult, s)>>, 1, ratio, xil)))])

\* lines 366-372
calc_num_s(self, xil, arec, ratio, mul, mult) ==
    After(mult, calc_num_loop(self, xil, arec, ratio, mult, SOf(self, mul, mult)))

\* line 365: mult = np.max(mul, axis=1)
calc_num_mult(self, xil, arec, ratio, mul) ==
    After(mul, calc_num_s(self, xil, arec, ratio, mul,
                          [g \in Range(NEl) |-> MaxLog(mul[g], NStage)]))

\* lines 359-364
calc_num_ratio(self, xil, arec, ratio) ==
    After(ratio, calc_num_mult(self, xil, arec, ratio, MulOf(self, ratio, xil)))

\* lines 352-358
calc_num_intgral(self, xil, arec, intgral) ==
    After(<<xil, arec, intgral>>,
          calc_num_ratio(self, xil, arec, Ratio(arec, intgral)))

\* _calc_num(spec, temp, xi)
calc_num(self, spec, temp, xi) ==
    calc_num_intgral(self, Xil(xi), Arec(self, temp), Intgral(self, spec))

----------------------------------------------------------------------------
(* _interpolate_sigma *)

\* np.searchsorted(x, v): the number of grid points below v
SearchSorted(x, v) == Cardinality({k \in Range(GridLen) : Lt(x[k], v)})

\* the upper index of the bracketing pair, clipped into the grid
Bracket(pos) == IF pos < 1 THEN 1 ELSE IF pos > GridLen - 1 THEN GridLen - 1 ELSE pos

\* slope * (v - x_lo) + y_lo for every (stage, element)
InterpBetween(x, y, v, hi) ==
    Eval([st \in Range(NStage) |-> [g \in Range(NEl) |->
        Add(Mul(Div(Sub(y[hi][st][g], y[hi - 1][st][g]), Sub(x[hi], x[hi - 1])),
                Sub(v, x[hi - 1])),
            y[hi - 1][st][g])]])

\* interp1d(..., kind="previous"): the table value of the grid point below
interp_sigma_previous(interp, v) ==
    interp.y[Bracket(SearchSorted(interp.x, v)) - 1]

\* self._interp_sigma(v), scipy's linear interp1d over its own copy of the
\* grid
interp_sigma(interp, v) ==
    InterpBetween(interp.x, interp.y, v, Bracket(SearchSorted(interp.x, v)))

\* sigma[mask1] *= f, broadcast over (stage, element)
ScaleSigma(row, f) ==
    After(f, [st \in Range(NStage) |-> [g \in Range(NEl) |-> Mul(row[st][g], f)]])

\* the power-law tail: self._sigma[720] * (e / base_energy[-1]) ** -3.0,
\* 720 being the last index of the grid
TailSigma(self, ev) ==
    ScaleSigma(self.sigma[GridLen - 1],
               PowF(Div(ev, self.base_energy[GridLen - 1]), Num(-3)))

\* mask1 = e > self._base_energy[-1], with the boundary counted in
Mask1Inclusive(self, e) == Le(self.base_energy[GridLen - 1], e)

\* mask1 = e > self._base_energy[-1], at one sample
Mask1(self, e) == Lt(self.base_energy[GridLen - 1], e)

\* mask2 = e < self._base_energy[0], at one sample
Mask2Of(self, e) == Lt(e, self.base_energy[0])

\* mask3 = (~mask1) * (~mask2), at one sample
Mask3(mask1, mask2) == (~mask1) /\ (~mask2)

\* the assignments of lines 299, 304 and 309 that write the slice of a
\* sample, in the order they run
WritesOf(mask1, mask2) ==
    (IF Mask3(mask1, mask2) THEN <<"interp">> ELSE <<>>)
    \o (IF mask1 THEN <<"tail">> ELSE <<>>)
    \o (IF mask2 THEN <<"hold">> ELSE <<>>)

\* the three assignments at one sample: mask3, then mask1, then mask2
SigmaMasked(self, e, mask1, mask2) ==
    IF mask2 THEN self.sigma[0]
    ELSE IF mask1 THEN TailSigma(self, e)
    ELSE IF Mask3(mask1, mask2) THEN interp_sigma(self.interp_sigma, e)
    ELSE [st \in Range(NStage) |-> [g \in Range(NEl) |-> Zero]]

SigmaAt(self, e) ==
    After(e, SigmaMasked(self, e, Mask1(self, e), Mask2Of(self, e)))

\* _interpolate_sigma(ekev): sigma[sample][stage][element]
interpolate_sigma(self, ekev) ==
    [i \in DOMAIN ekev |-> SigmaAt(self, Mul(Num(1000), ekev[i]))]

----------------------------------------------------------------------------
(* the abundance weights and the reduction *)

\* ab = self._abundance without the copy: the stored array itself
np_view(a) == [alias |-> TRUE, val |-> a]

\* np.copy(a): a new array holding the values of a, sharing nothing with it
np_copy(a) == [alias |-> FALSE, val |-> a]

\* ab[2:-1] *= 10 ** abundance ; ab[-1] *= 10 ** fe_abundance, in place
ScaleAb(ab, abundance, fe_abundance) ==
    [alias |-> ab.alias,
     val   |-> [g \in Range(NEl) |->
                  IF g = NEl - 1 THEN Mul(ab.val[g], PowF(Num(10), fe_abundance))
                  ELSE IF g >= 2 THEN Mul(ab.val[g], PowF(Num(10), abundance))
                  ELSE ab.val[g]]]

\* what the in-place scaling leaves in self._abundance: the scaled values
\* when ab is the stored array itself, the stored values when ab is a copy
StoredAbundance(self, ab) == IF ab.alias THEN ab.val ELSE self.abundance

\* num *= ab: every row of num times the abundance of its element
WeightNum(num, ab) ==
    [j \in DOMAIN num |-> [g \in Range(NEl) |-> Mul(num[j][g], ab.val[g])]]

\* np.sum(num * sigma, axis=(1, 2)) at one sample
SumNumSigma(num, sigma) ==
    SumTo([j \in Range(NStage) |->
              SumTo([g \in Range(NEl) |-> Mul(num[j][g], sigma[j][g])], NEl)],
          NStage)

----------------------------------------------------------------------------
(* Absori: _calc_opacity and evaluate, given the spectrum that
   self._calc_ion_spec(gamma) handed back *)

\* lines 274-279: the weighted sum at every sample, times 6.6e-5
calc_opacity_sum(ab, wnum, sigma) ==
    After(<<wnum, sigma>>,
       [ab  |-> ab,
        ret |-> Eval([i \in DOMAIN sigma |->
                         Mul(SumNumSigma(wnum, sigma[i]), Sci(66, -6))])])

\* lines 273-276
calc_opacity_weight(self, e, ab, num) ==
    After(<<e, ab, num>>,
          calc_opacity_sum(ab, WeightNum(num, ab), interpolate_sigma(self, e)))

\* _calc_opacity after the spectrum: the array it returns and the local ab
calc_opacity(self, spec, e, temp, xi, abundance, fe_abundance) ==
    calc_opacity_weight(self, e,
        ScaleAb(np_copy(self.abundance), abundance, fe_abundance),
        calc_num(self, spec, temp, xi).num)

\* np.exp(-NH) * opacity: the product taken outside the exponential
TransmissionOutside(NH, opacity) == Mul(ExpF(Neg(NH)), opacity)

\* np.exp(-NH * opacity) at one sample
Transmission(NH, opacity) == ExpF(Neg(Mul(NH, opacity)))

\* line 254, and the abundance vector the call leaves in the object
AbsoriReturn(self, a, op) ==
    After(op,
       [status    |-> "returned",
        val       |-> Eval([i \in DOMAIN a.x |-> Transmission(a.NH, op.ret[i])]),
        abundance |-> StoredAbundance(self, op.ab)])

\* Absori.evaluate
AbsoriEvaluate(self, spec, a) ==
    AbsoriReturn(self, a,
        calc_opacity(self, spec,
            [i \in DOMAIN a.x |-> Mul(a.x[i], Add(One, a.redshift))],
            a.temp, a.xi, a.abundance, a.fe_abundance))

----------------------------------------------------------------------------
(* Integrate_Absori.evaluate *)

omegam == Sci(3, -1)
omegal == Sci(7, -1)
h0 == Num(70)
cmpermpc == Sci(308568, 19)
c == Sci(299792458, -3)

\* nz = int(redshift / 0.02)
ShellCount(redshift) == Floor(Div(redshift, Sci(2, -2)))

\* zsam = redshift / nz.  Dividing a Python float by the int 0 raises
\* ZeroDivisionError; dividing a numpy float64 by it gives nan or inf and a
\* RuntimeWarning.
ShellWidth(redshift, ztype, nz) ==
    IF nz # 0 THEN [status |-> "ok", val |-> Div(redshift, Num(nz))]
    ELSE IF ztype = "float" THEN [status |-> "ZeroDivisionError", val |-> NaN]
    ELSE [status |-> "ok", val |-> NaN]

\* lines 559-560: zf of the shell at 1 + z = z1 with density n
ShellFactor(z1, zsam, n) ==
    Mul(Div(PowInt(z1, 2), SqrtF(Add(Mul(omegam, PowInt(z1, 3)), omegal))),
        Div(Mul(Mul(Mul(zsam, c), n), cmpermpc), h0))

\* lines 564-565: xsec * zf at every sample
ShellTerm(wnum, sigma, zf) ==
    After(<<sigma, zf>>,
       Eval([i \in DOMAIN sigma |->
          Mul(Mul(Mul(SumNumSigma(wnum, sigma[i]), Sci(66, -6)), Sci(1, -22)), zf)]))

\* lines 556-565: what one pass adds to taus, z1 = zz + 1.0
ShellTau(self, wnum, a, zsam, z1) ==
    After(z1,
       ShellTerm(wnum,
                 interpolate_sigma(self, [i \in DOMAIN a.x |-> Mul(a.x[i], z1)]),
                 ShellFactor(z1, zsam, Mul(a.n0, PowF(z1, a.delta)))))

\* taus = xsec * zf: the contribution assigned, not added
AddTauAssigned(taus, term) == After(term, term)

\* taus += xsec * zf
AddTau(taus, term) ==
    After(term, Eval([i \in DOMAIN taus |-> Add(taus[i], term[i])]))

RECURSIVE ShellLoop(_, _, _, _, _, _, _, _)
\* the loop of lines 555-566 from pass i on, zz and taus as that pass
\* finds them
ShellLoop(self, wnum, a, zsam, nz, i, zz, taus) ==
    IF wnum = wnum /\ zz = zz /\ taus = taus /\ i < nz
    THEN ShellLoop(self, wnum, a, zsam, nz, i + 1, Add(zz, zsam),
                   AddTau(taus, ShellTau(self, wnum, a, zsam, Add(zz, One))))
    ELSE taus

\* line 568, and the abundance vector the call leaves in the object
IntegrateReturn(self, ab, taus) ==
    After(taus,
       [status    |-> "returned",
        val       |-> Eval([i \in DOMAIN taus |-> ExpF(Neg(taus[i]))]),
        abundance |-> StoredAbundance(self, ab)])

\* lines 549-566
IntegrateShells(self, a, nz, zsam, ab, num) ==
    After(<<ab, num>>,
       IntegrateReturn(self, ab,
          ShellLoop(self, WeightNum(num, ab), a, zsam, nz, 0,
                    Mul(zsam, Sci(5, -1)), [i \in DOMAIN a.x |-> Zero])))

\* Integrate_Absori.evaluate from line 540 on, nz and zsam being the
\* shells of lines 538-539
IntegrateEvaluate(self, spec, a, nz, zsam) ==
    IntegrateShells(self, a, nz, zsam,
        ScaleAb(np_copy(self.abundance), a.abundance, a.fe_abundance),
        calc_num(self, spec, a.temp, a.xi).num)

----------------------------------------------------------------------------
(* The running program: three model objects, the memo that
   @lru_cache(maxsize=1) keeps for _calc_ion_spec of each class, and two
   threads calling evaluate. *)

VARIABLES
    objs,    \* instance -> the attributes _setup gave it
    memo,    \* class -> the entries of its lru_cache, oldest first
    last,    \* class -> the key of the latest finished _calc_ion_spec call
    frame,   \* thread -> the evaluate call it is in
    numrun,  \* two calls of _calc_num on their own
    sigrun,  \* a call of _interpolate_sigma on its own
    shellrun, \* a call of Integrate_Absori.evaluate, pass by pass
    loadrun  \* a call of _load_sigma on a row table, row by row

vars == <<objs, memo, last, frame, numrun, sigrun, shellrun, loadrun>>

Instances == {"a1", "a2", "i1"}

Classes == {"Absori", "Integrate_Absori"}

ClassOf(inst) == IF inst = "i1" THEN "Integrate_Absori" ELSE "Absori"

Threads == {"t1", "t2"}

\* the objects as __init__ leaves them
Loaded == Eval([inst \in Instances |-> Setup(ClassOf(inst))])

\* @lru_cache(maxsize=1)
maxsize == 1

\* a key made of the object alone
make_key_self(self, gamma) == <<self>>

\* the key of a cached call: its positional arguments
make_key(self, gamma) == <<self, gamma>>

HasKey(cache, key) == \E i \in 1..Len(cache) : cache[i].key = key

CacheGet(cache, key) ==
    cache[CHOOSE i \in 1..Len(cache) : cache[i].key = key].result

\* a hit makes its entry the most recent one
CacheTouch(cache, key) ==
    LET i == CHOOSE k \in 1..Len(cache) : cache[k].key = key
    IN Append(SubSeq(cache, 1, i - 1) \o SubSeq(cache, i + 1, Len(cache)), cache[i])

\* storing with no eviction: a full cache keeps what it has
cache_store_keep(cache, key, result) ==
    IF HasKey(cache, key) \/ Len(cache) >= maxsize THEN cache
    ELSE Append(cache, [key |-> key, result |-> result])

\* storing the result of a miss: an entry another call stored meanwhile is
\* left alone; a full cache gives up its oldest entry
cache_store(cache, key, result) ==
    IF HasKey(cache, key) THEN cache
    ELSE IF Len(cache) < maxsize
    THEN Append(cache, [key |-> key, result |-> result])
    ELSE Append(Tail(cache), [key |-> key, result |-> result])

NoKey == <<>>

NoFrame ==
    [pc |-> "idle", inst |-> "none", a |-> <<>>, nz |-> 0, zsam |-> Zero,
     spec |-> <<>>, hit |-> FALSE, out |-> <<>>]

NoRun == [pc |-> "none"]

----------------------------------------------------------------------------
(* the calls the threads make *)

\* the sample energies (keV): on the first grid energy, inside the grid,
\* above it
x0 == [i \in Range(3) |-> <<Sci(1, -3), Sci(3, -3), Sci(18, -3)>>[i + 1]]

AbsoriArgs(NH, redshift, temp, xi, gamma, abundance, fe_abundance) ==
    [x |-> x0, NH |-> NH, redshift |-> redshift, temp |-> temp, xi |-> xi,
     gamma |-> gamma, abundance |-> abundance, fe_abundance |-> fe_abundance]

\* ztype: whether redshift arrives as a Python float or a numpy float64
IntegrateArgs(n0, delta, redshift, ztype, temp, xi, gamma, abundance, fe_abundance) ==
    [x |-> x0, n0 |-> n0, delta |-> delta, redshift |-> redshift,
     ztype |-> ztype, temp |-> temp, xi |-> xi, gamma |-> gamma,
     abundance |-> abundance, fe_abundance |-> fe_abundance]

Menu1 ==
    { [inst |-> "a1", a |-> AbsoriArgs(One, Zero, Sci(1, 4), One, Num(2), Zero, Zero)],
      [inst |-> "a1", a |-> AbsoriArgs(Zero, One, Sci(4, 4), Num(2), One, One, Neg(One))],
      [inst |-> "a2", a |-> AbsoriArgs(Num(2), One, Sci(4, 4), Num(2), Num(2), One, Neg(One))],
      [inst |-> "i1", a |-> IntegrateArgs(Sci(1, -4), Zero, Sci(4, -2), "float",
                                          Sci(1, 4), One, Num(2), Zero, Zero)],
      [inst |-> "i1", a |-> IntegrateArgs(Zero, One, Sci(4, -2), "float",
                                          Sci(4, 4), Num(2), One, One, Neg(One))],
      [inst |-> "i1", a |-> IntegrateArgs(Sci(1, -4), Zero, Sci(1, -2), "float",
                                          Sci(1, 4), One, Num(2), Zero, Zero)],
      [inst |-> "i1", a |-> IntegrateArgs(Sci(1, -4), Zero, Sci(1, -2), "float64",
                                          Sci(1, 4), One, Num(2), Zero, Zero)],
      [inst |-> "i1", a |-> IntegrateArgs(Zero, Zero, Zero, "float",
                                          Sci(1, 4), One, Num(2), Zero, Zero)],
      [inst |-> "a2", a |-> AbsoriArgs(Zero, Zero, Sci(1, 6), Zero, Sci(15, -1),
                                       Neg(One), One)] }

Menu2 ==
    { [inst |-> "a1", a |-> AbsoriArgs(One, Zero, Sci(1, 4), One, Num(2), Zero, Zero)],
      [inst |-> "a1", a |-> AbsoriArgs(One, Zero, Sci(1, 4), One, One, Zero, Zero)],
      [inst |-> "i1", a |-> IntegrateArgs(Sci(1, -4), Zero, Sci(4, -2), "float",
                                          Sci(1, 4), One, One, Zero, Zero)] }

Menu(t) == IF t = "t1" THEN Menu1 ELSE Menu2

----------------------------------------------------------------------------
(* evaluate, step by step *)

\* the thread enters evaluate.  Integrate_Absori.evaluate first cuts the
\* line of sight into shells (lines 538-539), which can raise; both then ask
\* _calc_ion_spec for the spectrum.
Call(t) ==
    /\ frame[t].pc \in {"idle", "done"}
    /\ \E call \in Menu(t) :
          LET cls  == ClassOf(call.inst)
              nz   == IF cls = "Absori" THEN 0 ELSE ShellCount(call.a.redshift)
              zsam == IF cls = "Absori" THEN [status |-> "ok", val |-> Zero]
                      ELSE ShellWidth(call.a.redshift, call.a.ztype, nz)
          IN frame' = [frame EXCEPT ![t] =
                 IF zsam.status = "ok"
                 THEN [pc |-> "lookup", inst |-> call.inst, a |-> call.a,
                       nz |-> nz, zsam |-> zsam.val, spec |-> <<>>,
                       hit |-> FALSE, out |-> <<>>]
                 ELSE [pc |-> "done", inst |-> call.inst, a |-> call.a,
                       nz |-> nz, zsam |-> zsam.val, spec |-> <<>>,
                       hit |-> FALSE,
                       out |-> [status |-> zsam.status, val |-> <<>>]]]
    /\ UNCHANGED <<objs, memo, last, numrun, sigrun, shellrun, loadrun>>

\* self._calc_ion_spec(gamma) finds its key in the memo
CacheHit(t) ==
    LET f   == frame[t]
        cls == ClassOf(f.inst)
        key == make_key(f.inst, f.a.gamma)
    IN /\ f.pc = "lookup"
       /\ HasKey(memo[cls], key)
       /\ memo' = [memo EXCEPT ![cls] = CacheTouch(memo[cls], key)]
       /\ last' = [last EXCEPT ![cls] = key]
       /\ frame' = [frame EXCEPT ![t].pc = "body",
                                 ![t].spec = CacheGet(memo[cls], key),
                                 ![t].hit = TRUE]
       /\ UNCHANGED <<objs, numrun, sigrun, shellrun, loadrun>>

\* the key is not there: the wrapped function computes the spectrum, with
\* the memo not yet touched
CacheMiss(t) ==
    LET f    == frame[t]
        cls  == ClassOf(f.inst)
        key  == make_key(f.inst, f.a.gamma)
        self == objs[f.inst]
    IN /\ f.pc = "lookup"
       /\ ~HasKey(memo[cls], key)
       /\ frame' = [frame EXCEPT ![t].pc = "store",
                                 ![t].spec = Eval(calc_ion_spec_numba(
                                     f.a.gamma, self.base_energy, self.deltaE))]
       /\ UNCHANGED <<objs, memo, last, numrun, sigrun, shellrun, loadrun>>

\* the computed spectrum goes into the memo and back to evaluate
CacheStore(t) ==
    LET f   == frame[t]
        cls == ClassOf(f.inst)
        key == make_key(f.inst, f.a.gamma)
    IN /\ f.pc = "store"
       /\ memo' = [memo EXCEPT ![cls] = cache_store(memo[cls], key, f.spec)]
       /\ last' = [last EXCEPT ![cls] = key]
       /\ frame' = [frame EXCEPT ![t].pc = "body"]
       /\ UNCHANGED <<objs, numrun, sigrun, shellrun, loadrun>>

\* evaluate returns r: the array goes to the caller, and the object keeps
\* what the call left in self._abundance
ReturnWith(t, inst, r) ==
    /\ r = r
    /\ objs' = [objs EXCEPT ![inst].abundance = r.abundance]
    /\ frame' = [frame EXCEPT
          ![t].pc = "done", ![t].spec = <<>>,
          ![t].out = [status |-> r.status, val |-> r.val]]

\* the rest of evaluate, from the spectrum to the returned array
Return(t) ==
    /\ frame[t].pc = "body"
    /\ ReturnWith(t, frame[t].inst,
          IF ClassOf(frame[t].inst) = "Absori"
          THEN AbsoriEvaluate(objs[frame[t].inst], frame[t].spec, frame[t].a)
          ELSE IntegrateEvaluate(objs[frame[t].inst], frame[t].spec, frame[t].a,
                                 frame[t].nz, frame[t].zsam))
    /\ UNCHANGED <<memo, last, numrun, sigrun, shellrun, loadrun>>

Init ==
    /\ objs = Loaded
    /\ memo = [cls \in Classes |-> <<>>]
    /\ last = [cls \in Classes |-> NoKey]
    /\ frame = [t \in Threads |-> NoFrame]
    /\ numrun = NoRun
    /\ sigrun = NoRun
    /\ shellrun = NoRun
    /\ loadrun = NoRun

Next ==
    \E t \in Threads :
        \/ Call(t)
        \/ CacheHit(t)
        \/ CacheMiss(t)
        \/ CacheStore(t)
        \/ Return(t)

Spec == Init /\ [][Next]_vars

----------------------------------------------------------------------------
(* _calc_num called on its own: one object, one temperature and photon
   index, and the ionization parameters of two calls in a row *)

NumTemps == {Sci(1, 4), Sci(4, 4), Sci(1, 6)}

NumGammas == {One, Num(2)}

NumXis == {Neg(One), Zero, Sci(25, -2), One, Num(4)}

NumStarts ==
    {[temp |-> temp, gamma |-> gamma, xis |-> <<xi1, xi2>>, out |-> <<>>] :
        temp \in NumTemps, gamma \in NumGammas, xi1 \in NumXis, xi2 \in NumXis}

\* num = self._calc_num(spec, temp, xi), for the next xi of the run
CalcNum ==
    /\ numrun # NoRun
    /\ Len(numrun.out) < Len(numrun.xis)
    /\ numrun' = [numrun EXCEPT !.out = Append(@,
          calc_num(objs["a1"],
                   Eval(calc_ion_spec_numba(numrun.gamma, objs["a1"].base_energy,
                                            objs["a1"].deltaE)),
                   numrun.temp, numrun.xis[Len(numrun.out) + 1]))]
    /\ UNCHANGED <<objs, memo, last, frame, sigrun, shellrun, loadrun>>

InitNum ==
    /\ objs = Loaded
    /\ memo = [cls \in Classes |-> <<>>]
    /\ last = [cls \in Classes |-> NoKey]
    /\ frame = [t \in Threads |-> NoFrame]
    /\ numrun \in NumStarts
    /\ sigrun = NoRun
    /\ shellrun = NoRun
    /\ loadrun = NoRun

NextNum == CalcNum

SpecNum == InitNum /\ [][NextNum]_vars

----------------------------------------------------------------------------
(* _interpolate_sigma called on its own, on arrays of up to MaxSamples
   energies: below the grid, on its first point, between points, on a
   point inside, on its last point and above it *)

MaxSamples == 2

SigmaEnergies ==
    {Sci(5, -4), Sci(1, -3), Sci(15, -4), Sci(2, -3), Sci(3, -3), Sci(9, -3),
     Sci(18, -3)}

SigmaStarts ==
    UNION {{[ekev |-> ekev, out |-> <<>>, pc |-> "start"] :
               ekev \in [Range(n) -> SigmaEnergies]} : n \in 1..MaxSamples}

\* sigma = self._interpolate_sigma(ekev)
Interpolate ==
    /\ sigrun # NoRun
    /\ sigrun.pc = "start"
    /\ sigrun' = [sigrun EXCEPT !.pc = "done",
                                !.out = Eval(interpolate_sigma(objs["a1"], sigrun.ekev))]
    /\ UNCHANGED <<objs, memo, last, frame, numrun, shellrun, loadrun>>

InitSigma ==
    /\ objs = Loaded
    /\ memo = [cls \in Classes |-> <<>>]
    /\ last = [cls \in Classes |-> NoKey]
    /\ frame = [t \in Threads |-> NoFrame]
    /\ numrun = NoRun
    /\ sigrun \in SigmaStarts
    /\ shellrun = NoRun
    /\ loadrun = NoRun

NextSigma == Interpolate

SpecSigma == InitSigma /\ [][NextSigma]_vars

----------------------------------------------------------------------------
(* Integrate_Absori.evaluate called on its own and followed pass by pass
   through its shell loop *)

ShellRedshifts ==
    {Sci(1, -2), Sci(2, -2), Sci(4, -2), Sci(5, -2), Sci(7, -2), Sci(1, -1)}

ShellStarts ==
    {[pc |-> "start",
      a  |-> IntegrateArgs(Sci(1, -4), delta, redshift, "float", Sci(1, 4), One,
                           gamma, abundance, Zero)] :
        delta \in {Zero, One}, redshift \in ShellRedshifts,
        gamma \in {One, Num(2)}, abundance \in {Zero, One}}

\* lines 540-553: the locals as the loop finds them before its first pass
ShellsEntered(self, a, nz, zsam, ab, num) ==
    After(<<ab, num>>,
       [pc |-> "loop", a |-> a, nz |-> nz, zsam |-> zsam,
        zz |-> Mul(zsam, Sci(5, -1)), i |-> 0,
        num |-> Eval(WeightNum(num, ab)),
        taus |-> [k \in DOMAIN a.x |-> Zero], passes |-> <<>>,
        abundance |-> StoredAbundance(self, ab), out |-> <<>>])

\* lines 538-539, then the rest of the entry unless the division raised
ShellsEnterWith(self, spec, a, nz, width) ==
    IF width.status = "ok"
    THEN ShellsEntered(self, a, nz, width.val,
             ScaleAb(np_copy(self.abundance), a.abundance, a.fe_abundance),
             calc_num(self, spec, a.temp, a.xi).num)
    ELSE [pc |-> "raised", a |-> a, nz |-> nz, out |-> width.status]

\* the call runs up to the loop; _calc_ion_spec finds the memo empty and
\* leaves its spectrum there
ShellsEnterSpec(spec) ==
    /\ spec = spec
    /\ shellrun' = ShellsEnterWith(objs["i1"], spec, shellrun.a,
                      ShellCount(shellrun.a.redshift),
                      ShellWidth(shellrun.a.redshift, shellrun.a.ztype,
                                 ShellCount(shellrun.a.redshift)))
    /\ IF shellrun'.pc = "raised"
       THEN UNCHANGED <<memo, last>>
       ELSE /\ memo' = [memo EXCEPT !["Integrate_Absori"] =
                           cache_store(@, make_key("i1", shellrun.a.gamma), spec)]
            /\ last' = [last EXCEPT !["Integrate_Absori"] =
                           make_key("i1", shellrun.a.gamma)]

ShellsEnter ==
    /\ shellrun # NoRun
    /\ shellrun.pc = "start"
    /\ ShellsEnterSpec(calc_ion_spec_numba(shellrun.a.gamma, objs["i1"].base_energy,
                                           objs["i1"].deltaE))
    /\ UNCHANGED <<objs, frame, numrun, sigrun, loadrun>>

\* the record after a pass that added term
ShellPassed(r, term) ==
    After(term,
       [r EXCEPT !.taus = AddTau(r.taus, term),
                 !.zz = Add(r.zz, r.zsam),
                 !.i = r.i + 1,
                 !.passes = Append(@, [zz |-> r.zz, num |-> r.num, term |-> term])])

\* one pass of the loop of lines 555-566
ShellPass ==
    /\ shellrun # NoRun
    /\ shellrun.pc = "loop"
    /\ shellrun.i < shellrun.nz
    /\ shellrun' = ShellPassed(shellrun,
                      ShellTau(objs["i1"], shellrun.num, shellrun.a, shellrun.zsam,
                               Add(shellrun.zz, One)))
    /\ UNCHANGED <<objs, memo, last, frame, numrun, sigrun, loadrun>>

\* range(nz) is used up: line 568
ShellsReturn ==
    /\ shellrun # NoRun
    /\ shellrun.pc = "loop"
    /\ shellrun.i >= shellrun.nz
    /\ shellrun' = [shellrun EXCEPT !.pc = "done",
          !.out = Eval([k \in DOMAIN shellrun.taus |-> ExpF(Neg(shellrun.taus[k]))])]
    /\ objs' = [objs EXCEPT !["i1"].abundance = shellrun.abundance]
    /\ UNCHANGED <<memo, last, frame, numrun, sigrun, loadrun>>

InitShells ==
    /\ objs = Loaded
    /\ memo = [cls \in Classes |-> <<>>]
    /\ last = [cls \in Classes |-> NoKey]
    /\ frame = [t \in Threads |-> NoFrame]
    /\ numrun = NoRun
    /\ sigrun = NoRun
    /\ shellrun \in ShellStarts
    /\ loadrun = NoRun

NextShells == ShellsEnter \/ ShellPass \/ ShellsReturn

SpecShells == InitShells /\ [][NextShells]_vars

----------------------------------------------------------------------------
(* _load_sigma followed row by row over tables of its own: runs of rows of
   one atomic number, every row with coefficients and cross-sections no
   other row has *)

MaxGroups == 3

MaxRun == 2

LoadZs == {1, 2, 3}

\* what np.empty may have left in every entry of atomicnumber
EmptyValues == {0, 7, -1}

\* the runs of a table: atomic number and number of rows, neighbours
\* differing in atomic number
GroupLists ==
    UNION {{g \in [1 .. len -> [z : LoadZs, n : 1 .. MaxRun]] :
               \A j \in 1 .. len - 1 : g[j].z # g[j + 1].z} :
           len \in 1 .. MaxGroups}

RECURSIVE RowsBefore(_, _)
\* the number of rows ahead of run k
RowsBefore(groups, k) ==
    IF k <= 1 THEN 0 ELSE RowsBefore(groups, k - 1) + groups[k - 1].n

RowCount(groups) == RowsBefore(groups, Len(groups) + 1)

\* the run that row i is in
GroupOfRow(groups, i) ==
    CHOOSE k \in 1 .. Len(groups) :
        RowsBefore(groups, k) <= i /\ i < RowsBefore(groups, k + 1)

\* the columns Z, IONDATA and SIGMA of the table made of the runs
TableOf(groups) ==
    [znumber   |-> [i \in Range(RowCount(groups)) |-> groups[GroupOfRow(groups, i)].z],
     iondata   |-> [i \in Range(RowCount(groups)) |->
                       [k \in Range(NCoef) |-> Num(10 * (i + 1) + k)]],
     sigmadata |-> [i \in Range(RowCount(groups)) |->
                       [k \in Range(GridLen) |->
                           Mul(Sci(66, -28), Num(20 * (i + 1) + k))]]]

LoadStarts ==
    {[pc |-> "rows", groups |-> groups, tab |-> TableOf(groups),
      st |-> LoadStartWith([g \in Range(NEl) |-> v]), i |-> 0, out |-> <<>>] :
        groups \in GroupLists, v \in EmptyValues}

\* one pass of the loop of lines 168-186
LoadStep ==
    /\ loadrun # NoRun
    /\ loadrun.pc = "rows"
    /\ loadrun.i < RowCount(loadrun.groups)
    /\ loadrun' = [loadrun EXCEPT !.st = LoadRowOf(loadrun.tab, loadrun.st, loadrun.i),
                                  !.i = loadrun.i + 1]
    /\ UNCHANGED <<objs, memo, last, frame, numrun, sigrun, shellrun>>

\* the rows are used up: line 188
LoadReturn ==
    /\ loadrun # NoRun
    /\ loadrun.pc = "rows"
    /\ loadrun.i >= RowCount(loadrun.groups)
    /\ loadrun' = [loadrun EXCEPT !.pc = "done", !.out = LoadedTable(loadrun.st)]
    /\ UNCHANGED <<objs, memo, last, frame, numrun, sigrun, shellrun>>

InitLoad ==
    /\ objs = Loaded
    /\ memo = [cls \in Classes |-> <<>>]
    /\ last = [cls \in Classes |-> NoKey]
    /\ frame = [t \in Threads |-> NoFrame]
    /\ numrun = NoRun
    /\ sigrun = NoRun
    /\ shellrun = NoRun
    /\ loadrun \in LoadStarts

NextLoad == LoadStep \/ LoadReturn

SpecLoad == InitLoad /\ [][NextLoad]_vars

----------------------------------------------------------------------------
(* What the calls return *)

\* the evaluate calls that have finished
Finished(cls) ==
    {t \in Threads : frame[t].pc = "done" /\ ClassOf(frame[t].inst) = cls}

\* evaluate handed back an array of transmission exactly 1
ReturnedOnes(out) ==
    /\ out.status = "returned"
    /\ DOMAIN out.val = DOMAIN x0
    /\ \A i \in DOMAIN out.val : out.val[i] = One

\* the call had a redshift below one shell width
NoShell(f) == ~Lt(f.a.redshift, Zero) /\ Lt(f.a.redshift, Sci(2, -2)) /\ f.nz = 0

\* C1, as the claim states it: Integrate_Absori.evaluate with
\* 0 <= redshift < 0.02 (nz = 0) returns transmission exactly 1 at every
\* energy and does not end in a division fault.
C1_NoShellReturnsOne ==
    \A t \in Finished("Integrate_Absori") :
        NoShell(frame[t]) => ReturnedOnes(frame[t].out)

\* C1, what the code does: with nz = 0 line 539 divides redshift by the int
\* 0; a redshift that is a Python float ends the call in ZeroDivisionError,
\* one that is a numpy float64 goes on (zsam is nan or inf) and the call
\* returns ones.
C1_NoShellDivides ==
    \A t \in Finished("Integrate_Absori") :
        NoShell(frame[t]) =>
            IF frame[t].a.ztype = "float"
            THEN frame[t].out.status = "ZeroDivisionError"
            ELSE ReturnedOnes(frame[t].out)

\* a call with nz = 0 has ended in the division fault
C1_Faulted ==
    \E t \in Finished("Integrate_Absori") :
        /\ NoShell(frame[t])
        /\ frame[t].out.status = "ZeroDivisionError"

\* C3: Absori.evaluate with NH = 0 returns transmission exactly 1 at every
\* energy, whatever redshift, temp, xi, gamma, abundance and fe_abundance.
C3_ZeroColumnReturnsOne ==
    \A t \in Finished("Absori") :
        frame[t].a.NH = Zero => ReturnedOnes(frame[t].out)

\* an NH = 0 call with no parameter at its default, xi <= 0 among them,
\* has returned
C3_ZeroColumnCall ==
    \E t \in Finished("Absori") :
        /\ frame[t].a.NH = Zero
        /\ frame[t].a.xi = Zero
        /\ frame[t].a.abundance # Zero
        /\ frame[t].a.fe_abundance # Zero
        /\ frame[t].out.status = "returned"

\* C4, as the claim states it: Integrate_Absori.evaluate with n0 = 0
\* returns transmission exactly 1 at every energy for any redshift >= 0.
C4_ZeroDensityReturnsOne ==
    \A t \in Finished("Integrate_Absori") :
        frame[t].a.n0 = Zero => ReturnedOnes(frame[t].out)

\* C4, what the code does: with n0 = 0 the call returns ones when the
\* redshift gives at least one shell, and ends in the division of C1 when
\* it gives none and is a Python float.
C4_ZeroDensityWithShells ==
    \A t \in Finished("Integrate_Absori") :
        frame[t].a.n0 = Zero =>
            IF frame[t].nz = 0 /\ frame[t].a.ztype = "float"
            THEN frame[t].out.status = "ZeroDivisionError"
            ELSE ReturnedOnes(frame[t].out)

\* an n0 = 0 call over two shells has returned
C4_ZeroDensityCall ==
    \E t \in Finished("Integrate_Absori") :
        /\ frame[t].a.n0 = Zero
        /\ frame[t].nz = 2
        /\ frame[t].out.status = "returned"

----------------------------------------------------------------------------
(* Determinism, the memo and the tables *)

\* what evaluate(call) returns on an object just constructed, with nothing
\* in the memo
FreshEvaluate(call) ==
    LET cls  == ClassOf(call.inst)
        self == Loaded[call.inst]
        spec == Eval(calc_ion_spec_numba(call.a.gamma, self.base_energy, self.deltaE))
        nz   == ShellCount(call.a.redshift)
        zsam == ShellWidth(call.a.redshift, call.a.ztype, nz)
    IN IF cls = "Absori"
       THEN LET r == AbsoriEvaluate(self, spec, call.a)
            IN [status |-> r.status, val |-> r.val]
       ELSE IF zsam.status # "ok" THEN [status |-> zsam.status, val |-> <<>>]
       ELSE LET r == IntegrateEvaluate(self, spec, call.a, nz, zsam.val)
            IN [status |-> r.status, val |-> r.val]

FreshResults == Eval([call \in Menu1 \cup Menu2 |-> FreshEvaluate(call)])

\* C5: evaluation is deterministic and history-independent: whatever calls
\* ran before or between, every finished call has returned what its
\* arguments give on a fresh object with an empty memo, so two calls with
\* identical arguments return identical results.
C5_HistoryIndependent ==
    \A t \in Threads :
        frame[t].pc = "done" =>
            frame[t].out = FreshResults[[inst |-> frame[t].inst, a |-> frame[t].a]]

\* both threads have finished the same call with the same absorbed
\* spectrum, one on a spectrum it computed and one on a spectrum the memo
\* handed it
C5_SameCallTwice ==
    /\ frame["t1"].pc = "done" /\ frame["t2"].pc = "done"
    /\ frame["t1"].inst = frame["t2"].inst
    /\ frame["t1"].a = frame["t2"].a
    /\ frame["t1"].out = frame["t2"].out
    /\ frame["t1"].out.status = "returned"
    /\ \E i \in DOMAIN x0 : frame["t1"].out.val[i] # One
    /\ frame["t1"].hit # frame["t2"].hit

\* the spectrum of a key: the one gamma gives on the grid of the object
SpectrumOf(key) ==
    calc_ion_spec_numba(key[2], objs[key[1]].base_energy, objs[key[1]].deltaE)

\* C6: the memo never hands out a stale entry: under every interleaving of
\* calls of two threads and three objects with differing gamma, every call
\* of _calc_ion_spec gets the spectrum of its own gamma and grid, every
\* entry of the memo holds the spectrum of its key, and after each call the
\* memo holds the entry of that call and no other.
C6_MemoNeverStale ==
    /\ \A t \in Threads :
          frame[t].pc \in {"store", "body"} =>
              frame[t].spec = SpectrumOf(<<frame[t].inst, frame[t].a.gamma>>)
    /\ \A cls \in Classes :
          /\ Len(memo[cls]) <= maxsize
          /\ \A k \in DOMAIN memo[cls] :
                memo[cls][k].result = SpectrumOf(memo[cls][k].key)
          /\ last[cls] # NoKey =>
                memo[cls] = <<[key |-> last[cls], result |-> SpectrumOf(last[cls])]>>

\* two evaluations of the same class are under way with different gamma,
\* one got its spectrum from the memo and the other took the slot since
C6_Overtaken ==
    \E t \in Threads : \E u \in Threads \ {t} :
        /\ frame[t].pc = "body" /\ frame[u].pc = "body"
        /\ ClassOf(frame[t].inst) = ClassOf(frame[u].inst)
        /\ frame[t].a.gamma # frame[u].a.gamma
        /\ frame[t].hit
        /\ last[ClassOf(frame[u].inst)] = <<frame[u].inst, frame[u].a.gamma>>

\* C9: the loaded tables are read-only during evaluation: after any
\* sequence of evaluate calls the abundance vector, the cross-section
\* table, the ion coefficients, the grid, deltaE and the masks of every
\* object are what _setup left.
C9_TablesUnchanged == objs = Loaded

\* a call with both abundance offsets set has returned
C9_OffsetsApplied ==
    \E t \in Threads :
        /\ frame[t].pc = "done"
        /\ frame[t].out.status = "returned"
        /\ frame[t].a.abundance # Zero
        /\ frame[t].a.fe_abundance # Zero
        /\ \E i \in DOMAIN x0 : frame[t].out.val[i] # One

----------------------------------------------------------------------------
(* The population matrix *)

\* the _calc_num calls of the run that have returned
NumCalls == IF numrun = NoRun THEN {} ELSE DOMAIN numrun.out

\* the sum over all stages of num[stage][g]
StoredSum(r, g) == SumTo([j \in Range(NStage) |-> r.num[j][g]], NStage)

\* the fraction of the fully stripped stage Z of element g, one step of
\* line 375 beyond the last row the matrix keeps for it
StrippedFraction(r, g) ==
    Mul(Mul(r.num[objs["a1"].atomicnumber[g] - 1][g],
            ExpL(r.ratio[g][objs["a1"].atomicnumber[g] - 1])),
        ExpL(r.xil))

\* a and b agree to the three figures a sum of four-figure terms keeps
Close(a, b) == Le(Sub(a, b), Sci(2, -3)) /\ Le(Sub(b, a), Sci(2, -3))

\* every entry of a stage the element does not have is exactly 0
InvalidAreZero(r) ==
    \A g \in Range(NEl) : \A j \in Range(NStage) :
        j >= objs["a1"].atomicnumber[g] => r.num[j][g] = Zero

MeanStage(r, g) ==
    Div(SumTo([j \in Range(NStage) |-> Mul(Num(j), r.num[j][g])], NStage),
        StoredSum(r, g))

\* C8: at a fixed temp, for 0 < xi1 < xi2 the population-weighted mean
\* ionization stage of the matrix is strictly larger at xi2 than at xi1,
\* for every element with more than one valid stage.
C8_MeanStageRises ==
    (NumCalls = {1, 2} /\ Lt(Zero, numrun.xis[1]) /\ Lt(numrun.xis[1], numrun.xis[2])) =>
        \A g \in Range(NEl) :
            objs["a1"].atomicnumber[g] > 1 =>
                Lt(MeanStage(numrun.out[1], g), MeanStage(numrun.out[2], g))

\* two calls at 0 < xi1 < xi2 have returned, and the mean stage of the
\* heaviest element rose by more than a tenth
C8_TwoCalls ==
    /\ NumCalls = {1, 2}
    /\ Lt(Zero, numrun.xis[1]) /\ Lt(numrun.xis[1], numrun.xis[2])
    /\ Lt(Add(MeanStage(numrun.out[1], NEl - 1), Sci(1, -1)),
          MeanStage(numrun.out[2], NEl - 1))

\* C10: the edge cases are branches, not errors: for xi <= 0 the solver
\* takes xil = -100, for every (element, stage) with arec == 0, the invalid
\* stages among them, it leaves ratio = 0, and in both cases _calc_num
\* returns a population matrix (no entry of ratio or num is nan).
C10_EdgeCases ==
    \A i \in NumCalls :
        /\ Le(numrun.xis[i], Zero) => numrun.out[i].xil = LogM100
        /\ \A g \in Range(NEl) : \A st \in Range(NStage) :
              /\ numrun.out[i].arec[g][st] = Zero =>
                    numrun.out[i].ratio[g][st] = LogZero
              /\ ~objs["a1"].mask_valid[g][st] => numrun.out[i].arec[g][st] = Zero
              /\ ~IsNaN(numrun.out[i].ratio[g][st].arg)
        /\ DOMAIN numrun.out[i].num = Range(objs["a1"].max_atomicnumber)
        /\ \A j \in Range(NStage) : \A g \in Range(NEl) :
              ~IsNaN(numrun.out[i].num[j][g])

\* a call with xi <= 0 has returned, on a table where a valid stage has
\* arec == 0
C10_BothEdges ==
    \E i \in NumCalls :
        /\ Le(numrun.xis[i], Zero)
        /\ \E g \in Range(NEl) : \E st \in Range(NStage) :
              /\ objs["a1"].mask_valid[g][st]
              /\ numrun.out[i].arec[g][st] = Zero
        /\ numrun.out[i].num[0][0] = One

----------------------------------------------------------------------------
(* The seams of the interpolation *)

\* the samples of the finished _interpolate_sigma call whose energy in eV
\* is the grid energy of index k
SamplesAt(k) ==
    IF sigrun = NoRun \/ sigrun.pc # "done" THEN {}
    ELSE {i \in DOMAIN sigrun.ekev :
             Mul(Num(1000), sigrun.ekev[i]) = objs["a1"].base_energy[k]}

\* C7: _interpolate_sigma is continuous at both seams: a sample on
\* base_energy[0] gets exactly the tabulated sigma of index 0, a sample on
\* the last grid energy exactly the tabulated sigma of the last index, and
\* the power-law tail sigma[last] * (E / base_energy[last]) ** -3 taken at
\* E = base_energy[last] is that same tabulated value.
C7_SeamsExact ==
    /\ \A i \in SamplesAt(0) : sigrun.out[i] = objs["a1"].sigma[0]
    /\ \A i \in SamplesAt(GridLen - 1) : sigrun.out[i] = objs["a1"].sigma[GridLen - 1]
    /\ TailSigma(objs["a1"], objs["a1"].base_energy[GridLen - 1])
           = objs["a1"].sigma[GridLen - 1]

\* one call has interpolated a sample on each end of the grid, where the
\* table differs from its neighbour
C7_BothSeams ==
    /\ SamplesAt(0) # {}
    /\ SamplesAt(GridLen - 1) # {}
    /\ objs["a1"].sigma[GridLen - 1] # objs["a1"].sigma[GridLen - 2]
    /\ objs["a1"].sigma[0] # objs["a1"].sigma[1]

----------------------------------------------------------------------------
(* The three regimes of the interpolation *)

\* the samples of the finished _interpolate_sigma call, in eV
DoneSamples ==
    IF sigrun = NoRun \/ sigrun.pc # "done" THEN {} ELSE DOMAIN sigrun.ekev

SampleEv(i) == Mul(Num(1000), sigrun.ekev[i])

\* what the one regime named w puts into the slice of a sample at e
RegimeValue(w, e) ==
    CASE w = "tail" -> TailSigma(objs["a1"], e)
      [] w = "hold" -> objs["a1"].sigma[0]
      [] w = "interp" -> interp_sigma(objs["a1"].interp_sigma, e)

\* C11: the three regimes of _interpolate_sigma partition the input: every
\* sample is in exactly one of 'above the last grid energy' (tail), 'below
\* the first' (hold) and 'within range' (interpolation), a sample on either
\* boundary is within range, and every output slice is written by exactly
\* one assignment, that of its regime: none stays at its initial zeros and
\* none is written twice.
C11_RegimesPartition ==
    \A i \in DoneSamples :
        LET e  == SampleEv(i)
            m1 == Mask1(objs["a1"], e)
            m2 == Mask2Of(objs["a1"], e)
            w  == WritesOf(m1, m2)
        IN /\ Len(w) = 1
           /\ (w[1] = "tail") = Lt(objs["a1"].base_energy[GridLen - 1], e)
           /\ (w[1] = "hold") = Lt(e, objs["a1"].base_energy[0])
           /\ (e = objs["a1"].base_energy[0] \/ e = objs["a1"].base_energy[GridLen - 1])
                 => w[1] = "interp"
           /\ sigrun.out[i] = RegimeValue(w[1], e)
           /\ \E st \in Range(NStage) : \E g \in Range(NEl) :
                 sigrun.out[i][st][g] # Zero

\* one call has had a sample on the upper boundary and a sample in another
\* regime
C11_BoundaryAndBeyond ==
    \E i \in DoneSamples : \E j \in DoneSamples :
        /\ SampleEv(i) = objs["a1"].base_energy[GridLen - 1]
        /\ WritesOf(Mask1(objs["a1"], SampleEv(j)), Mask2Of(objs["a1"], SampleEv(j)))
              # <<"interp">>

----------------------------------------------------------------------------
(* The shell loop of Integrate_Absori.evaluate *)

RECURSIVE TermsAdded(_, _, _)
\* the contributions of the first n passes added up in the order of the loop
TermsAdded(passes, n, zeros) ==
    IF n = 0 THEN zeros
    ELSE [k \in DOMAIN zeros |->
             Add(TermsAdded(passes, n - 1, zeros)[k], passes[n].term[k])]

\* the abundance-weighted populations of the arguments a, computed afresh
WeightedPopulations(a) ==
    WeightNum(calc_num(objs["i1"],
                       calc_ion_spec_numba(a.gamma, objs["i1"].base_energy,
                                           objs["i1"].deltaE),
                       a.temp, a.xi).num,
              ScaleAb(np_copy(Loaded["i1"].abundance), a.abundance, a.fe_abundance))

\* (i + 0.5) * zsam for the pass numbered i from 0
Midpoint(i, zsam) == Mul(Sci(10 * i + 5, -1), zsam)

InLoop == shellrun # NoRun /\ shellrun.pc \in {"loop", "done"}

\* C12: with nz = floor(z_src / 0.02) >= 1 the shell loop ends after exactly
\* nz passes; pass i is evaluated at the midpoint (i + 0.5) * zsam, zsam =
\* z_src / nz, so the midpoints increase strictly, lie strictly inside
\* (0, z_src) and the nz widths add up to z_src; the weighted population
\* matrix is computed once before the loop and is the same in every pass;
\* and tau is the sum of the per-pass contributions xsec * zf.
C12_ShellLoop ==
    InLoop =>
       LET r == shellrun
           n == Len(r.passes)
       IN /\ r.nz = Floor(Div(r.a.redshift, Sci(2, -2)))
          /\ r.nz >= 1
          /\ r.zsam = Div(r.a.redshift, Num(r.nz))
          /\ n = r.i /\ n <= r.nz
          /\ r.pc = "done" => n = r.nz
          /\ Close(Mul(Num(r.nz), r.zsam), r.a.redshift)
          /\ \A k \in 1..n :
                /\ Close(Div(r.passes[k].zz, Midpoint(k - 1, r.zsam)), One)
                /\ Lt(Zero, r.passes[k].zz)
                /\ Lt(r.passes[k].zz, r.a.redshift)
                /\ k > 1 => Lt(r.passes[k - 1].zz, r.passes[k].zz)
                /\ r.passes[k].num = r.num
          /\ r.num = WeightedPopulations(r.a)
          /\ r.taus = TermsAdded(r.passes, n, [k \in DOMAIN r.a.x |-> Zero])
          /\ r.pc = "done" =>
                /\ r.out = [k \in DOMAIN r.taus |-> ExpF(Neg(r.taus[k]))]
                /\ r.out = IntegrateEvaluate(Loaded["i1"],
                              calc_ion_spec_numba(r.a.gamma, objs["i1"].base_energy,
                                                  objs["i1"].deltaE),
                              r.a, r.nz, r.zsam).val

\* a call has returned after five passes whose contributions are not all
\* zero
C12_FiveShells ==
    /\ shellrun # NoRun
    /\ shellrun.pc = "done"
    /\ shellrun.nz = 5
    /\ Len(shellrun.passes) = 5
    /\ \E k \in DOMAIN shellrun.taus : Lt(shellrun.passes[5].term[k], shellrun.taus[k])

----------------------------------------------------------------------------
(* The layout _load_sigma gives the rows *)

Loaded13 == loadrun # NoRun /\ loadrun.pc = "done"

\* the slot [g][st] holds a row: run g + 1 has a row numbered st
Reached(groups, g, st) == g < Len(groups) /\ st < groups[g + 1].n

\* the row of the table that belongs in slot [g][st]
RowOf(groups, g, st) == RowsBefore(groups, g + 1) + st

\* C13: for a table whose rows come in runs of one atomic number,
\* _load_sigma stores the j-th row of the k-th run at ion[k][j] and
\* sigma[k][j] and sets atomicnumber[k] to the Z of the run: the stage index
\* restarts at 0 when Z changes, the element index advances by one per run,
\* no row overwrites another, and the slots of ion and sigma that no row
\* reaches stay zero.
C13_RowsInPlace ==
    Loaded13 =>
       LET groups == loadrun.groups
           tab    == loadrun.tab
           out    == loadrun.out
       IN /\ loadrun.st.iZ = Len(groups) - 1
          /\ loadrun.st.iIon = groups[Len(groups)].n - 1
          /\ \A g \in Range(NEl) : \A st \in Range(NStage) :
                IF Reached(groups, g, st)
                THEN /\ out.ion[g][st] =
                           [k \in Range(NCoef) |->
                               CoefUnits(k, tab.iondata[RowOf(groups, g, st)][k])]
                     /\ out.sigma[g][st] =
                           [k \in Range(GridLen) |->
                               Div(tab.sigmadata[RowOf(groups, g, st)][k], Sci(66, -28))]
                     /\ out.atomicnumber[g] = groups[g + 1].z
                     /\ tab.znumber[RowOf(groups, g, st)] = groups[g + 1].z
                     /\ \A g2 \in Range(NEl) : \A st2 \in Range(NStage) :
                           (Reached(groups, g2, st2) /\ <<g2, st2>> # <<g, st>>)
                              => /\ out.ion[g2][st2] # out.ion[g][st]
                                 /\ out.sigma[g2][st2] # out.sigma[g][st]
                ELSE /\ \A k \in Range(NCoef) : out.ion[g][st][k] = Zero
                     /\ \A k \in Range(GridLen) : out.sigma[g][st][k] = Zero

\* a table of three runs, the first of two rows, the third of the atomic
\* number of the first, has been loaded, and the entry of atomicnumber no
\* run reached holds what np.empty left there
C13_ThreeRuns ==
    /\ Loaded13
    /\ Len(loadrun.groups) = 3
    /\ loadrun.groups[1].n = 2
    /\ loadrun.groups[3].z = loadrun.groups[1].z
    /\ loadrun.out.atomicnumber[3] = 7
    /\ loadrun.out.ion[1][0][0] # Zero

=============================================================================
